---- MODULE Spec2Model ----
(***************************************************************************)
(* Model of directory-comparator: main.py (root validation and wiring),    *)
(* directory_comparator.py (tree scan, type classification, content hash,  *)
(* change analysis) and change_reporter.py (rendering of the change map).  *)
(*                                                                         *)
(* A relative path is the sequence of its components; the empty sequence   *)
(* is the root itself.  A file system is a function from the real location *)
(* of an entry (a path that crosses no symbolic link) to the entry.        *)
(***************************************************************************)
EXTENDS Integers, Sequences, FiniteSets, TLC

\* ------------------------------------------------------------------------
\* Bounds of the model
\* ------------------------------------------------------------------------

\* Symbolic links the kernel follows while resolving one path before it
\* gives up with ELOOP (40 on Linux); os.path.isdir / isfile / islink turn
\* that error into False.
MaxSymlinks == 2

\* Bytes per read of the Content Hasher (the source reads 8192 at a time).
block_size == 2

\* Component names of directory entries.
Names == {"a", "b", "c"}

\* Byte contents of regular files: one block, and the same block followed
\* by one more byte.
Content1 == <<7, 9>>
Content2 == <<7, 9, 7>>

\* ------------------------------------------------------------------------
\* File system entries
\* ------------------------------------------------------------------------

\* kind    "dir" | "file" | "link" | "other" (fifo, socket, device) | "none"
\* content the bytes of a regular file
\* io      how reading a regular file goes: "ok", "noopen" (open fails),
\*         "readerr" (a read after the first one fails)
\* list    how listing a directory goes: "ok", "perm" (PermissionError),
\*         "err" (any other OSError)
\* target  where a symbolic link points, as a path from the root
NoEntry == [kind |-> "none", content |-> <<>>, io |-> "ok", list |-> "ok", target |-> <<>>]

File(c, io) == [NoEntry EXCEPT !.kind = "file", !.content = c, !.io = io]

Dir(l) == [NoEntry EXCEPT !.kind = "dir", !.list = l]

Link(t) == [NoEntry EXCEPT !.kind = "link", !.target = t]

Other == [NoEntry EXCEPT !.kind = "other"]

Entry(tree, node) == IF node \in DOMAIN tree THEN tree[node] ELSE NoEntry

ENOENT == [ok |-> FALSE, node |-> <<>>]

\* Path resolution as the kernel does it: component by component from the
\* root, following every symbolic link met on the way (the last component
\* only when follow is set), at most MaxSymlinks of them.
RECURSIVE Walk(_, _, _, _, _)
Walk(tree, cur, rest, follow, n) ==
    IF rest = <<>> THEN [ok |-> TRUE, node |-> cur]
    ELSE IF Entry(tree, cur).kind # "dir" THEN ENOENT
    ELSE LET nxt == Append(cur, Head(rest))
             e   == Entry(tree, nxt)
         IN  IF e.kind = "none" THEN ENOENT
             ELSE IF e.kind = "link" /\ (Len(rest) > 1 \/ follow)
                  THEN IF n >= MaxSymlinks THEN ENOENT
                       ELSE Walk(tree, <<>>, e.target \o Tail(rest), follow, n + 1)
                  ELSE Walk(tree, nxt, Tail(rest), follow, n)

\* os.stat (follows the last link) and os.lstat (does not).
Stat(tree, path) ==
    LET r == Walk(tree, <<>>, path, TRUE, 0)
    IN  IF r.ok THEN Entry(tree, r.node) ELSE NoEntry

Lstat(tree, path) ==
    LET r == Walk(tree, <<>>, path, FALSE, 0)
    IN  IF r.ok THEN Entry(tree, r.node) ELSE NoEntry

isdir(tree, path) == Stat(tree, path).kind = "dir"

isfile(tree, path) == Stat(tree, path).kind = "file"

islink(tree, path) == Lstat(tree, path).kind = "link"

\* os.scandir: the names in the directory the path resolves to.
scandir(tree, path) ==
    LET r == Walk(tree, <<>>, path, TRUE, 0)
    IN  {nm \in Names : Entry(tree, Append(r.node, nm)).kind # "none"}

\* ------------------------------------------------------------------------
\* Type Classifier and Content Hasher (directory_comparator.py)
\* ------------------------------------------------------------------------

\* A variant that leaves out the islink test.
is_hashable_without_islink(tree, path) ==
    ~isdir(tree, path) /\ isfile(tree, path)

is_hashable(tree, path) ==
    ~isdir(tree, path) /\ ~islink(tree, path) /\ isfile(tree, path)

are_types_same(tree1, path1, tree2, path2) ==
    IF isdir(tree1, path1) /\ isdir(tree2, path2) THEN TRUE
    ELSE IF isfile(tree1, path1) /\ isfile(tree2, path2) THEN TRUE
    ELSE IF islink(tree1, path1) /\ islink(tree2, path2) THEN TRUE
    ELSE FALSE

\* hashlib's update(): the digest state absorbs the bytes of one block, in
\* order.  The state is a number that determines the byte string absorbed
\* so far (bytes are below 256), so that two digests are equal exactly when
\* the byte strings are: SHA-256 without its collisions.
RECURSIVE update(_, _)
update(h, r) ==
    IF r = <<>> THEN h ELSE update(h * 257 + Head(r) + 1, Tail(r))

IOError == [ok |-> FALSE, digest |-> 0]

\* file.read(n) at an offset: at most n bytes, empty at the end of the file.
read(content, off, n) ==
    SubSeq(content, off + 1, IF off + n < Len(content) THEN off + n ELSE Len(content))

\* A variant that stops after the first block.
read_blocks_first_only(e, n, off, h, nread) ==
    [ok |-> TRUE, digest |-> update(h, read(e.content, off, n))]

\* The read loop of _calculate_hash; nread counts the reads made so far.
RECURSIVE read_blocks(_, _, _, _, _)
read_blocks(e, n, off, h, nread) ==
    IF e.io = "readerr" /\ nread >= 1 THEN IOError
    ELSE LET r == read(e.content, off, n)
         IN  IF r = <<>> THEN [ok |-> TRUE, digest |-> h]
             ELSE read_blocks(e, n, off + Len(r), update(h, r), nread + 1)

\* A variant that catches the I/O error and returns the digest of nothing.
calculate_hash_swallowing(tree, path) ==
    [ok |-> TRUE, digest |-> 0]

\* _calculate_hash: open() follows symbolic links and fails on anything that
\* cannot be opened for reading.
calculate_hash(tree, path) ==
    LET e == Stat(tree, path)
    IN  IF e.kind # "file" \/ e.io = "noopen" THEN IOError
        ELSE read_blocks(e, block_size, 0, 0, 0)

\* A variant that forgets the directory the entry is in.
join_name_only(path, i) == <<i>>

\* os.path.join(path, os.path.split(i)[1]): the relative path of entry i of
\* the directory at the relative path.
join(path, i) == Append(path, i)

\* The string a relative path is ("" for the root).
RECURSIVE PathStr(_)
PathStr(p) ==
    IF p = <<>> THEN ""
    ELSE IF Len(p) = 1 THEN p[1]
    ELSE PathStr(SubSeq(p, 1, Len(p) - 1)) \o "/" \o p[Len(p)]

\* ------------------------------------------------------------------------
\* The trees a run may be given
\* ------------------------------------------------------------------------

MkTree(root, a, b, c) ==
    (<<>> :> root) @@ (<<"a">> :> a) @@ (<<"b">> :> b) @@ (<<"a", "c">> :> c)

Files == {File(Content1, "ok"), File(Content2, "ok"),
          File(Content2, "noopen"), File(Content2, "readerr")}

\* Under a listable root: entry a of any kind (a directory with or without
\* a child c), next to an entry b.
PlainTrees ==
    { MkTree(Dir("ok"), a, b, NoEntry) :
        a \in Files \cup {Link(<<"b">>), Link(<<"a">>), Other, NoEntry},
        b \in {NoEntry, File(Content1, "ok"), Dir("ok")} }

DirTrees ==
    { MkTree(Dir("ok"), Dir(l), b, c) :
        l \in {"ok", "perm", "err"},
        b \in {NoEntry, File(Content1, "ok")},
        c \in {NoEntry, File(Content1, "ok"), Dir("ok")} }

\* A symbolic link to one of its own ancestors.
LoopTrees == { MkTree(Dir("ok"), Link(<<>>), NoEntry, NoEntry) }

\* Roots that cannot be listed, and roots that are no directory.
RootTrees ==
    { MkTree(r, File(Content1, "ok"), NoEntry, NoEntry) :
        r \in {Dir("perm"), Dir("err"), File(Content1, "ok"), NoEntry} }

Trees == PlainTrees \cup DirTrees \cup LoopTrees \cup RootTrees

\* ------------------------------------------------------------------------
\* State
\* ------------------------------------------------------------------------

VARIABLES
    original_tree,       \* the file system under args.original
    new_tree,            \* the file system under args.new
    disable_hash_check,  \* args.disable_hash_check
    pc,                  \* where the run is
    paths,               \* scan_directory: the set being filled
    stack,               \* _scan_directory: the calls in progress, innermost last
    visits,              \* how many times each directory was entered in this scan
    original_paths,      \* compare: snapshot of the original root
    new_paths,           \* compare: snapshot of the new root
    todo,                \* _analyze_changes: paths the running loop has yet to take
    change_map,          \* _analyze_changes: relative path -> change note
    keys,                \* the keys of change_map in insertion order
    hashed,              \* files _calculate_hash was called on: <<side, path>>
    result,              \* what compare returned: <<change_map>>, or <<>> so far
    output,              \* the lines ChangeReporter.report printed
    exit_status,         \* exit status of the process, -1 while running
    trace                \* the phases of the run that began, in order

vars == <<original_tree, new_tree, disable_hash_check, pc, paths, stack, visits,
          original_paths, new_paths, todo, change_map, keys, hashed, result,
          output, exit_status, trace>>

Init ==
    /\ original_tree \in Trees
    /\ new_tree \in Trees
    /\ disable_hash_check \in BOOLEAN
    /\ pc = "main"
    /\ paths = {}
    /\ stack = <<>>
    /\ visits = <<>>
    /\ original_paths = {}
    /\ new_paths = {}
    /\ todo = {}
    /\ change_map = <<>>
    /\ keys = <<>>
    /\ hashed = {}
    /\ result = <<>>
    /\ output = <<>>
    /\ exit_status = -1
    /\ trace = <<>>

\* ------------------------------------------------------------------------
\* Helpers of the actions
\* ------------------------------------------------------------------------

TreeOf(side) == IF side = "original" THEN original_tree ELSE new_tree

\* The scan that is running.
Side == IF pc = "scan_original" THEN "original" ELSE "new"

Top == stack[Len(stack)]

Count(vs, path) == IF path \in DOMAIN vs THEN vs[path] ELSE 0

\* An exception nobody catches: the interpreter prints the traceback and the
\* process exits with status 1.
Raise ==
    /\ pc' = "error"
    /\ exit_status' = 1
    /\ stack' = <<>>

\* A variant in which a PermissionError is not told from other errors.
list_result_uncaught(tree, path) ==
    LET e == Stat(tree, path)
    IN  IF e.kind = "dir" /\ e.list = "ok" THEN "ok" ELSE "err"

\* What os.scandir does with a path: "ok", "perm" (PermissionError) or "err"
\* (another OSError, such as a path that is no directory).
list_result(tree, path) ==
    LET e == Stat(tree, path)
    IN  IF e.kind = "dir" THEN e.list ELSE "err"

\* A call _scan_directory(paths, root, path) up to the start of its loop,
\* made with the calls of stk in progress, the set ps and the counts vs:
\* the path is added, then the directory is listed.  A PermissionError is
\* caught by the call itself, which prints it and returns; any other error
\* leaves through every caller.
Enter(tree, path, stk, ps, vs, pcNext) ==
    /\ paths' = ps \cup {path}
    /\ visits' = (path :> Count(vs, path) + 1) @@ vs
    /\ LET l == list_result(tree, path)
       IN  IF l = "ok"
           THEN /\ stack' = Append(stk, [path |-> path, todo |-> scandir(tree, path)])
                /\ pc' = pcNext
                /\ UNCHANGED exit_status
           ELSE IF l = "perm"
           THEN /\ stack' = stk
                /\ pc' = pcNext
                /\ UNCHANGED exit_status
           ELSE Raise

\* A variant with the two markers exchanged.
Line_markers_exchanged(key, value) ==
    IF value = "-" THEN "[+] " \o key
    ELSE IF value = "+" THEN "[-] " \o key
    ELSE key \o ": " \o value

\* The line ChangeReporter.report prints for one entry of the map.
Line(key, value) ==
    IF value = "-" THEN "[-] " \o key
    ELSE IF value = "+" THEN "[+] " \o key
    ELSE key \o ": " \o value

\* ------------------------------------------------------------------------
\* main.py
\* ------------------------------------------------------------------------

\* A variant that checks the original root only.
ValidateOriginalOnly ==
    /\ pc = "main"
    /\ IF isdir(original_tree, <<>>)
       THEN pc' = "compare" /\ UNCHANGED <<exit_status, stack>>
       ELSE Raise
    /\ UNCHANGED <<original_tree, new_tree, disable_hash_check, paths, visits,
                   original_paths, new_paths, todo, change_map, keys, hashed,
                   result, output, trace>>

\* main, lines 22-28: both roots are checked before compare is called.
Validate ==
    /\ pc = "main"
    /\ IF isdir(original_tree, <<>>) /\ isdir(new_tree, <<>>)
       THEN pc' = "compare" /\ UNCHANGED <<exit_status, stack>>
       ELSE Raise
    /\ UNCHANGED <<original_tree, new_tree, disable_hash_check, paths, visits,
                   original_paths, new_paths, todo, change_map, keys, hashed,
                   result, output, trace>>

\* ------------------------------------------------------------------------
\* Tree Scanner
\* ------------------------------------------------------------------------

\* compare calls scan_directory(root): a fresh set, then the call for "".
ScanDirectory ==
    /\ pc \in {"compare", "scanned_original"}
    /\ LET side == IF pc = "compare" THEN "original" ELSE "new"
       IN  /\ trace' = Append(trace, "scan_" \o side)
           /\ Enter(TreeOf(side), <<>>, <<>>, {}, <<>>, "scan_" \o side)
    /\ UNCHANGED <<original_tree, new_tree, disable_hash_check, original_paths,
                   new_paths, todo, change_map, keys, hashed, result, output>>

\* One turn of the loop of _scan_directory over the listing, in whatever
\* order os.scandir yields the entries.
ScanEntry ==
    /\ pc \in {"scan_original", "scan_new"}
    /\ stack # <<>>
    /\ \E i \in Top.todo :
         LET relative_path == join(Top.path, i)
             stk == [stack EXCEPT ![Len(stack)].todo = @ \ {i}]
         IN  IF ~isdir(TreeOf(Side), relative_path)
             THEN /\ paths' = paths \cup {relative_path}
                  /\ stack' = stk
                  /\ UNCHANGED <<pc, visits, exit_status>>
             ELSE Enter(TreeOf(Side), relative_path, stk, paths, visits, pc)
    /\ UNCHANGED <<original_tree, new_tree, disable_hash_check, original_paths,
                   new_paths, todo, change_map, keys, hashed, result, output, trace>>

\* The loop of a call is over: the call returns to its caller.
ScanReturn ==
    /\ pc \in {"scan_original", "scan_new"}
    /\ stack # <<>>
    /\ Top.todo = {}
    /\ stack' = SubSeq(stack, 1, Len(stack) - 1)
    /\ UNCHANGED <<original_tree, new_tree, disable_hash_check, pc, paths, visits,
                   original_paths, new_paths, todo, change_map, keys, hashed,
                   result, output, exit_status, trace>>

\* scan_directory returns the set to compare.
ScanFinish ==
    /\ pc \in {"scan_original", "scan_new"}
    /\ stack = <<>>
    /\ IF pc = "scan_original"
       THEN original_paths' = paths /\ pc' = "scanned_original" /\ UNCHANGED new_paths
       ELSE new_paths' = paths /\ pc' = "scanned_new" /\ UNCHANGED original_paths
    /\ UNCHANGED <<original_tree, new_tree, disable_hash_check, paths, stack, visits,
                   todo, change_map, keys, hashed, result, output, exit_status, trace>>

\* ------------------------------------------------------------------------
\* Change Analyzer
\* ------------------------------------------------------------------------

\* Between the scans and the analysis the file system is not held still:
\* a file that was readable may stop being so.
MakeUnreadable ==
    /\ pc = "scanned_new"
    /\ \E side \in {"original", "new"} :
         \E node \in DOMAIN TreeOf(side) :
            /\ TreeOf(side)[node].kind = "file"
            /\ TreeOf(side)[node].io = "ok"
            /\ IF side = "original"
               THEN /\ original_tree' = [original_tree EXCEPT ![node].io = "noopen"]
                    /\ UNCHANGED new_tree
               ELSE /\ new_tree' = [new_tree EXCEPT ![node].io = "noopen"]
                    /\ UNCHANGED original_tree
    /\ pc' = "raced"
    /\ UNCHANGED <<disable_hash_check, paths, stack, visits, original_paths,
                   new_paths, todo, change_map, keys, hashed, result, output,
                   exit_status, trace>>

\* _analyze_changes begins: an empty map, then the loop over original_paths.
AnalyzeBegin ==
    /\ pc \in {"scanned_new", "raced"}
    /\ pc' = "loop_original"
    /\ change_map' = <<>>
    /\ keys' = <<>>
    /\ todo' = original_paths
    /\ trace' = Append(trace, "analyze")
    /\ UNCHANGED <<original_tree, new_tree, disable_hash_check, paths, stack,
                   visits, original_paths, new_paths, hashed, result, output,
                   exit_status>>

\* What one turn of the first loop finds for a path i of original_paths:
\* the note to record ("" for none), the files it hashed, and whether a hash
\* raised.  The new file is hashed only after the original one was.
analyze_original(i) ==
    IF i \notin new_paths
    THEN [note |-> "-", hashed |-> {}, raised |-> FALSE]
    ELSE IF is_hashable(original_tree, i) /\ is_hashable(new_tree, i)
    THEN IF ~disable_hash_check
         THEN LET original_file_hash == calculate_hash(original_tree, i)
                  new_file_hash == calculate_hash(new_tree, i)
              IN  IF ~original_file_hash.ok
                  THEN [note |-> "", hashed |-> {<<"original", i>>}, raised |-> TRUE]
                  ELSE IF ~new_file_hash.ok
                  THEN [note |-> "", hashed |-> {<<"original", i>>, <<"new", i>>},
                        raised |-> TRUE]
                  ELSE [note |-> IF original_file_hash.digest # new_file_hash.digest
                                 THEN "different hash" ELSE "",
                        hashed |-> {<<"original", i>>, <<"new", i>>},
                        raised |-> FALSE]
         ELSE [note |-> "", hashed |-> {}, raised |-> FALSE]
    ELSE IF ~are_types_same(original_tree, i, new_tree, i)
    THEN [note |-> "different type", hashed |-> {}, raised |-> FALSE]
    ELSE [note |-> "", hashed |-> {}, raised |-> FALSE]

\* A variant without the membership test.
analyze_new_unconditional(i) == "+"

\* What one turn of the second loop finds for a path i of new_paths.
analyze_new(i) == IF i \notin original_paths THEN "+" ELSE ""

\* change_map[i] = note
Record(i, note) ==
    /\ change_map' = (i :> note) @@ change_map
    /\ keys' = IF i \in DOMAIN change_map THEN keys ELSE Append(keys, i)

\* One turn of the loop over original_paths (lines 53-67), in whatever order
\* the set yields its members.
AnalyzeOriginal ==
    /\ pc = "loop_original"
    /\ \E i \in todo :
         LET r == analyze_original(i)
         IN  /\ todo' = todo \ {i}
             /\ hashed' = hashed \cup r.hashed
             /\ IF r.raised
                THEN Raise /\ UNCHANGED <<change_map, keys>>
                ELSE /\ UNCHANGED <<pc, exit_status, stack>>
                     /\ IF r.note # "" THEN Record(i, r.note)
                        ELSE UNCHANGED <<change_map, keys>>
    /\ UNCHANGED <<original_tree, new_tree, disable_hash_check, paths, visits,
                   original_paths, new_paths, result, output, trace>>

\* The first loop is over: the loop over new_paths begins (line 69).
AnalyzeNextLoop ==
    /\ pc = "loop_original"
    /\ todo = {}
    /\ pc' = "loop_new"
    /\ todo' = new_paths
    /\ UNCHANGED <<original_tree, new_tree, disable_hash_check, paths, stack,
                   visits, original_paths, new_paths, change_map, keys, hashed,
                   result, output, exit_status, trace>>

\* One turn of the loop over new_paths (lines 69-71).
AnalyzeNew ==
    /\ pc = "loop_new"
    /\ \E i \in todo :
         /\ todo' = todo \ {i}
         /\ IF analyze_new(i) # "" THEN Record(i, analyze_new(i))
            ELSE UNCHANGED <<change_map, keys>>
    /\ UNCHANGED <<original_tree, new_tree, disable_hash_check, pc, paths, stack,
                   visits, original_paths, new_paths, hashed, result, output,
                   exit_status, trace>>

\* _analyze_changes returns the map, and compare returns it to main.
AnalyzeReturn ==
    /\ pc = "loop_new"
    /\ todo = {}
    /\ result' = <<change_map>>
    /\ pc' = "report"
    /\ UNCHANGED <<original_tree, new_tree, disable_hash_check, paths, stack,
                   visits, original_paths, new_paths, todo, change_map, keys,
                   hashed, output, exit_status, trace>>

\* ------------------------------------------------------------------------
\* Reporter
\* ------------------------------------------------------------------------

\* The lines ChangeReporter.report prints for a map whose keys, in the
\* order items() yields them, are ks.
report(cm, ks) ==
    IF Len(ks) = 0
    THEN <<"No change has been found!">>
    ELSE <<"Changes:">> \o [k \in 1..Len(ks) |-> Line(PathStr(ks[k]), cm[ks[k]])]

\* main, line 31, and the normal end of the process.
Report ==
    /\ pc = "report"
    /\ output' = report(result[1], keys)
    /\ trace' = Append(trace, "report")
    /\ pc' = "done"
    /\ exit_status' = 0
    /\ UNCHANGED <<original_tree, new_tree, disable_hash_check, paths, stack,
                   visits, original_paths, new_paths, todo, change_map, keys,
                   hashed, result>>

Next ==
    \/ Validate
    \/ ScanDirectory
    \/ ScanEntry
    \/ ScanReturn
    \/ ScanFinish
    \/ MakeUnreadable
    \/ AnalyzeBegin
    \/ AnalyzeOriginal
    \/ AnalyzeNextLoop
    \/ AnalyzeNew
    \/ AnalyzeReturn
    \/ Report

Spec == Init /\ [][Next]_vars

\* The run is sequential code: a step that can be taken is taken.
FairSpec == Spec /\ WF_vars(Next)

\* ------------------------------------------------------------------------
\* Vocabulary of the properties
\* ------------------------------------------------------------------------

Common == original_paths \cap new_paths

\* The entry found at a relative path without following a final link: a
\* regular file that is no symbolic link, a directory that is none.
Regular(tree, p) == Lstat(tree, p).kind = "file"

RealDir(tree, p) == Lstat(tree, p).kind = "dir"

\* The new tree is a copy of the original one: the snapshots are equal, and
\* at every location there is the same kind of entry, with the same bytes,
\* the same link target and the same listing behaviour.
IdenticalTrees ==
    /\ original_paths = new_paths
    /\ \A node \in DOMAIN original_tree :
        /\ original_tree[node].kind = new_tree[node].kind
        /\ original_tree[node].content = new_tree[node].content
        /\ original_tree[node].target = new_tree[node].target
        /\ original_tree[node].list = new_tree[node].list

\* The Content Hasher was called on a file it cannot open or cannot read to
\* the end.
HashFailed ==
    \E h \in hashed : Stat(TreeOf(h[1]), h[2]).io # "ok"

\* Relative paths of up to n components.
RECURSIVE PathsUpTo(_)
PathsUpTo(n) ==
    IF n = 0 THEN {<<>>}
    ELSE LET S == PathsUpTo(n - 1)
         IN  S \cup {Append(q, nm) : q \in S, nm \in Names}

\* Every relative path at which the tree has an entry.
AllPaths(tree) ==
    {p \in PathsUpTo(MaxSymlinks + 2) : Lstat(tree, p).kind # "none"}

IsPrefix(s, t) == Len(s) <= Len(t) /\ s = SubSeq(t, 1, Len(s))

FullTrace == <<"scan_original", "scan_new", "analyze", "report">>

\* ------------------------------------------------------------------------
\* C1
\* ------------------------------------------------------------------------

\* C1: in the map _analyze_changes returns, every path of the original
\* snapshot that is not in the new one maps to "-", every path of the new
\* snapshot that is not in the original one maps to "+", every key is in one
\* of the snapshots, a path of both snapshots is absent or maps to
\* "different hash" / "different type", and every key was inserted once.
C1_SetDifference ==
    result # <<>> =>
        LET m == result[1]
        IN  /\ \A p \in original_paths \ new_paths : p \in DOMAIN m /\ m[p] = "-"
            /\ \A p \in new_paths \ original_paths : p \in DOMAIN m /\ m[p] = "+"
            /\ DOMAIN m \subseteq original_paths \cup new_paths
            /\ \A p \in Common :
                 p \in DOMAIN m => m[p] \in {"different hash", "different type"}
            /\ Len(keys) = Cardinality(DOMAIN m)
            /\ {keys[k] : k \in 1..Len(keys)} = DOMAIN m

C1_Witness ==
    /\ pc = "done"
    /\ \E p \in original_paths \ new_paths : result[1][p] = "-"
    /\ \E p \in new_paths \ original_paths : result[1][p] = "+"
    /\ \E p \in Common : p \in DOMAIN result[1]
    /\ \E p \in Common : p \notin DOMAIN result[1]

\* ------------------------------------------------------------------------
\* C2
\* ------------------------------------------------------------------------

\* C2: a path of both snapshots that is a symbolic link on exactly one side
\* maps to "different type" in the returned map.
C2_SymlinkOneSide ==
    result # <<>> =>
        \A p \in Common :
            islink(original_tree, p) # islink(new_tree, p)
                => p \in DOMAIN result[1] /\ result[1][p] = "different type"

\* ------------------------------------------------------------------------
\* C3
\* ------------------------------------------------------------------------

\* C3: comparing a tree with an identical copy of itself returns an empty
\* map, whatever kinds of entries the tree holds.
C3_Idempotence ==
    (result # <<>> /\ IdenticalTrees) => DOMAIN result[1] = {}

\* ------------------------------------------------------------------------
\* C4
\* ------------------------------------------------------------------------

\* C4: for a path of both snapshots that is a regular non-link file on both
\* sides: with hashing enabled the returned map has "different hash" for it
\* exactly when the bytes differ; with hashing disabled it has no record for
\* it, and the Content Hasher is never called.
C4_HashToggle ==
    /\ disable_hash_check => hashed = {}
    /\ result # <<>> =>
         \A p \in Common :
            (Regular(original_tree, p) /\ Regular(new_tree, p)) =>
                IF disable_hash_check
                THEN p \notin DOMAIN result[1]
                ELSE (p \in DOMAIN result[1] /\ result[1][p] = "different hash")
                       <=> (Lstat(original_tree, p).content
                              # Lstat(new_tree, p).content)

C4_Witness ==
    /\ pc = "done"
    /\ ~disable_hash_check
    /\ \E p \in Common :
         /\ Regular(original_tree, p) /\ Regular(new_tree, p)
         /\ Lstat(original_tree, p).content # Lstat(new_tree, p).content
         /\ result[1][p] = "different hash"
    /\ \E p \in Common :
         /\ Regular(original_tree, p) /\ Regular(new_tree, p)
         /\ p \notin DOMAIN result[1]

\* ------------------------------------------------------------------------
\* C5
\* ------------------------------------------------------------------------

\* C5: a path that is a directory on one side and a regular file on the
\* other maps to "different type"; "different hash" is recorded only for a
\* path that is a regular non-link file on both sides; and the Content
\* Hasher is called on regular non-link files only.
C5_TypePrecedence ==
    /\ \A h \in hashed : Regular(TreeOf(h[1]), h[2])
    /\ result # <<>> =>
         /\ \A p \in DOMAIN result[1] :
              result[1][p] = "different hash"
                 => Regular(original_tree, p) /\ Regular(new_tree, p)
         /\ \A p \in Common :
              (\/ RealDir(original_tree, p) /\ Regular(new_tree, p)
               \/ Regular(original_tree, p) /\ RealDir(new_tree, p))
                 => p \in DOMAIN result[1] /\ result[1][p] = "different type"

C5_Witness ==
    /\ pc = "done"
    /\ hashed # {}
    /\ \E p \in Common :
         /\ RealDir(original_tree, p) /\ Regular(new_tree, p)
         /\ result[1][p] = "different type"

\* ------------------------------------------------------------------------
\* C6
\* ------------------------------------------------------------------------

\* The line the rendering contract gives a path with a change note.
Rendered(p, note) ==
    IF note = "-" THEN "[-] " \o PathStr(p)
    ELSE IF note = "+" THEN "[+] " \o PathStr(p)
    ELSE IF note = "different hash" THEN PathStr(p) \o ": different hash"
    ELSE PathStr(p) \o ": different type"

\* C6 as stated: report prints one line for an empty map, and for a map of
\* n entries n lines, one per entry: "[-] <path>", "[+] <path>",
\* "<path>: different hash" or "<path>: different type".
C6_OneLinePerEntry ==
    pc = "done" =>
        LET m == result[1]
        IN  IF DOMAIN m = {}
            THEN output = <<"No change has been found!">>
            ELSE /\ Len(output) = Cardinality(DOMAIN m)
                 /\ \A p \in DOMAIN m :
                      \E k \in 1..Len(output) : output[k] = Rendered(p, m[p])

\* C6 as amended: report prints one line for an empty map, and for a map of
\* n entries the line "Changes:" followed by n lines, one per entry, in the
\* order of the map: "[-] <path>", "[+] <path>", "<path>: different hash"
\* or "<path>: different type".
C6_HeaderThenOneLinePerEntry ==
    pc = "done" =>
        LET m == result[1]
        IN  IF DOMAIN m = {}
            THEN output = <<"No change has been found!">>
            ELSE /\ Len(output) = Cardinality(DOMAIN m) + 1
                 /\ output[1] = "Changes:"
                 /\ Len(keys) = Cardinality(DOMAIN m)
                 /\ \A k \in 1..Len(keys) :
                      /\ keys[k] \in DOMAIN m
                      /\ output[k + 1] = Rendered(keys[k], m[keys[k]])

C6_Witness ==
    /\ pc = "done"
    /\ Len(output) = 4
    /\ \E p, q, r \in DOMAIN result[1] :
         /\ result[1][p] = "-"
         /\ result[1][q] = "+"
         /\ result[1][r] = "different type"

\* ------------------------------------------------------------------------
\* C7
\* ------------------------------------------------------------------------

\* C7: once the Content Hasher has failed on a file, the run is in its error
\* state: compare returned no map, report printed nothing and never began,
\* and the exit status is 1.
C7_HashFailureAborts ==
    HashFailed =>
        /\ pc = "error"
        /\ result = <<>>
        /\ output = <<>>
        /\ exit_status = 1
        /\ trace = <<"scan_original", "scan_new", "analyze">>

C7_Witness ==
    /\ HashFailed
    /\ pc = "error"
    /\ \E p, q \in DOMAIN change_map :
         change_map[p] = "-" /\ change_map[q] = "different type"

\* ------------------------------------------------------------------------
\* C8
\* ------------------------------------------------------------------------

\* The tree with every directory that cannot be listed for lack of
\* permission replaced by an empty directory.
AsIfEmpty(tree) ==
    [node \in DOMAIN tree |->
        IF \E k \in 0..(Len(node) - 1) :
              /\ tree[SubSeq(node, 1, k)].kind = "dir"
              /\ tree[SubSeq(node, 1, k)].list = "perm"
        THEN NoEntry
        ELSE IF tree[node].kind = "dir" /\ tree[node].list = "perm"
        THEN Dir("ok")
        ELSE tree[node]]

\* A directory of the tree the scan reached fails to list with an error
\* other than a permission failure.
ListingError(tree, ps) ==
    \E p \in ps : Stat(tree, p).kind = "dir" /\ Stat(tree, p).list = "err"

\* C8: a scan that returns, returns exactly the paths the tree would have
\* if every directory that denies listing were empty (that directory
\* included, nothing below it, everything beside it); a scan ends in the
\* error state exactly when a directory it reached fails to list for
\* another reason.
C8_PermissionLocal ==
    /\ pc = "scanned_original" =>
          /\ original_paths = AllPaths(AsIfEmpty(original_tree))
          /\ ~ListingError(original_tree, original_paths)
    /\ pc = "scanned_new" =>
          /\ new_paths = AllPaths(AsIfEmpty(new_tree))
          /\ ~ListingError(new_tree, new_paths)
    /\ (pc = "error" /\ trace = <<"scan_original">>)
          => ListingError(original_tree, paths)
    /\ (pc = "error" /\ trace = <<"scan_original", "scan_new">>)
          => ListingError(new_tree, paths)

C8_Witness ==
    /\ pc = "scanned_new"
    /\ new_tree[<<"a">>].kind = "dir"
    /\ new_tree[<<"a">>].list = "perm"
    /\ new_tree[<<"a", "c">>].kind = "file"
    /\ new_paths = {<<>>, <<"a">>, <<"b">>}
    /\ visits[<<"a">>] = 1

\* ------------------------------------------------------------------------
\* C9
\* ------------------------------------------------------------------------

ValidRoots ==
    /\ original_tree[<<>>].kind = "dir"
    /\ new_tree[<<>>].kind = "dir"

\* C9: with a root that is no directory the run ends in error with status 1
\* and no scan, analysis or report ever begins; the phases of a run are
\* always a prefix of scan original, scan new, analyze, report; a run that
\* ends normally went through all four and exits with status 0, changes or
\* not; with two directories as roots a run ends in error only on a listing
\* error or a hash failure; and every run ends.
C9_Safety ==
    /\ ~ValidRoots =>
          /\ pc \in {"main", "error"}
          /\ trace = <<>>
          /\ paths = {}
          /\ result = <<>>
          /\ output = <<>>
    /\ IsPrefix(trace, FullTrace)
    /\ pc = "error" => exit_status = 1
    /\ pc = "done" <=> exit_status = 0
    /\ pc = "done" => trace = FullTrace
    /\ (ValidRoots /\ pc = "error") =>
          \/ HashFailed
          \/ ListingError(original_tree, paths) /\ trace = <<"scan_original">>
          \/ ListingError(new_tree, paths) /\ trace = <<"scan_original", "scan_new">>

\* C9: the safety part above holds throughout, and every run ends, in its
\* normal end or in the error state.
C9_RootValidation == []C9_Safety /\ <>(pc \in {"done", "error"})

C9_Witness ==
    /\ pc = "error"
    /\ original_tree[<<>>].kind = "dir"
    /\ new_tree[<<>>].kind # "dir"
    /\ trace = <<>>

\* ------------------------------------------------------------------------
\* C10
\* ------------------------------------------------------------------------

\* No symbolic link of the tree resolves to a directory, and every directory
\* of the tree can be listed.
Plain(tree) ==
    /\ tree[<<>>].kind = "dir"
    /\ \A node \in DOMAIN tree :
         /\ tree[node].kind = "link" => ~isdir(tree, node)
         /\ tree[node].kind = "dir" => tree[node].list = "ok"

\* The entries under the root: the locations that hold an entry and whose
\* ancestors are all directories.
Entries(tree) ==
    {node \in DOMAIN tree :
        /\ tree[node].kind # "none"
        /\ \A k \in 0..(Len(node) - 1) : tree[SubSeq(node, 1, k)].kind = "dir"}

Directories(tree) == {node \in Entries(tree) : tree[node].kind = "dir"}

C10_Safety ==
    /\ (pc \in {"scan_original", "scanned_original"} /\ Plain(original_tree))
          => \A d \in DOMAIN visits : visits[d] = 1 /\ d \in Directories(original_tree)
    /\ (pc \in {"scan_new", "scanned_new"} /\ Plain(new_tree))
          => \A d \in DOMAIN visits : visits[d] = 1 /\ d \in Directories(new_tree)
    /\ (pc = "scanned_original" /\ Plain(original_tree))
          => /\ original_paths = Entries(original_tree)
             /\ DOMAIN visits = Directories(original_tree)
    /\ (pc = "scanned_new" /\ Plain(new_tree))
          => /\ new_paths = Entries(new_tree)
             /\ DOMAIN visits = Directories(new_tree)

\* C10: on a tree in which no symbolic link resolves to a directory and
\* every directory can be listed, the scan ends, enters each directory
\* exactly once, and returns exactly the root and the entries under it.
C10_ScanExact ==
    /\ []C10_Safety
    /\ (pc = "scan_original" /\ Plain(original_tree)) ~> (pc = "scanned_original")
    /\ (pc = "scan_new" /\ Plain(new_tree)) ~> (pc = "scanned_new")

C10_Witness ==
    /\ pc = "scanned_original"
    /\ Plain(original_tree)
    /\ original_tree[<<"a">>].kind = "dir"
    /\ original_tree[<<"a", "c">>].kind = "dir"
    /\ original_paths = {<<>>, <<"a">>, <<"b">>, <<"a", "c">>}

====
